---------------------------- MODULE Spec2Model ----------------------------
(***************************************************************************)
(* Native entry point of the Tax Free RDC desktop shell                    *)
(* (src/frontend/src-tauri/src/lib.rs, fn run).                            *)
(*                                                                         *)
(* run() is one builder chain: six .plugin(..) calls, one .setup(..) call, *)
(* .run(context) and .expect(msg) on its Result.  The chain is modelled    *)
(* call by call (ip is the position in the chain); the host framework's    *)
(* part of .run(context) -- building the application, delivering the Ready *)
(* event that invokes the setup hook, servicing events, stopping -- is     *)
(* modelled as the environment of the chain.                               *)
(***************************************************************************)
EXTENDS Naturals, Integers, Sequences, FiniteSets, TLC

\* ---- bounds ----

\* Number of log records application code emits in one run.
MaxLog == 3

\* Number of external events the run loop services in one run.
MaxEvents == 2

\* ---- program constants ----

\* Message passed to .expect(..).
ExpectMsg == "Erreur lors du lancement de l'application Tax Free RDC"

\* Label looked up by the setup closure.
MainLabel == "main"

\* Exit status of a process whose main thread panics (the .expect on Err).
PanicExitStatus == 101

\* Exit status of a process that leaves the run loop normally.
NormalExitStatus == 0

\* Window labels the externally supplied context may define.
WindowLabels == {"main", "splash"}

\* Ways .run(context) can fail before the run loop starts.
LaunchErrors == {"context", "resources", "windowing"}

\* Severities of the log facade, most severe first.
Levels == <<"error", "warn", "info", "debug", "trace">>

LevelSet == {Levels[i] : i \in 1..Len(Levels)}

\* Position of a severity in Levels: error = 1 ... trace = 5.
LevelOrd(l) == CHOOSE i \in 1..Len(Levels) : Levels[i] = l

\* The filter mutated: one step more verbose than the code configures.
LevelFilterDebug == "debug"

\* .level(log::LevelFilter::Info)
LevelFilter == "info"

\* A record passes the filter when it is at least as severe as the filter.
LogEnabled(l) == LevelOrd(l) <= LevelOrd(LevelFilter)

\* ---- builder chain ----

Call(op, arg) == [op |-> op, arg |-> arg]

\* The chain with the logging plugin left out.
BuilderChainFivePlugins ==
    << Call("plugin", "shell"), Call("plugin", "process"),
       Call("plugin", "dialog"), Call("plugin", "notification"),
       Call("plugin", "http"),
       Call("setup", "closure"), Call("run", "context") >>

\* The chain with two plugin registrations exchanged.
BuilderChainSwapped ==
    << Call("plugin", "process"), Call("plugin", "shell"),
       Call("plugin", "dialog"), Call("plugin", "notification"),
       Call("plugin", "http"), Call("plugin", "log"),
       Call("setup", "closure"), Call("run", "context") >>

\* The chain with the .setup(..) call left out.
BuilderChainNoSetup ==
    << Call("plugin", "shell"), Call("plugin", "process"),
       Call("plugin", "dialog"), Call("plugin", "notification"),
       Call("plugin", "http"), Call("plugin", "log"),
       Call("run", "context") >>

\* The calls made on tauri::Builder::default(), in source order.
BuilderChain ==
    << Call("plugin", "shell"), Call("plugin", "process"),
       Call("plugin", "dialog"), Call("plugin", "notification"),
       Call("plugin", "http"), Call("plugin", "log"),
       Call("setup", "closure"), Call("run", "context") >>

\* ---- setup closure ----

\* Result of the closure: what it returns, the focus requests it issued and
\* the windows that exist when it returns.  focusOk is the outcome the
\* windowing system gives a focus request.
Outcome(result, requests, ws) ==
    [result |-> result, requests |-> requests, windows |-> ws]

FocusReq(label, ok) == [label |-> label, ok |-> ok]

\* The closure with `?` in place of `.ok()`: a focus failure propagates.
SetupClosurePropagating(ws, focusOk) ==
    IF MainLabel \in ws
    THEN Outcome(IF focusOk THEN "Ok" ELSE "Err", << FocusReq(MainLabel, focusOk) >>, ws)
    ELSE Outcome("Ok", << >>, ws)

\* The closure requiring the window: a missing window is an error.
SetupClosureRequiring(ws, focusOk) ==
    IF MainLabel \in ws
    THEN Outcome("Ok", << FocusReq(MainLabel, focusOk) >>, ws)
    ELSE Outcome("Err", << >>, ws)

\* The closure focusing whichever window it finds when "main" is absent.
SetupClosureAnyWindow(ws, focusOk) ==
    IF MainLabel \in ws
    THEN Outcome("Ok", << FocusReq(MainLabel, focusOk) >>, ws)
    ELSE IF ws # {}
         THEN Outcome("Ok", << FocusReq(CHOOSE w \in ws : TRUE, focusOk) >>, ws)
         ELSE Outcome("Ok", << >>, ws)

\* |app| { if let Some(window) = app.get_webview_window("main") {
\*             window.set_focus().ok(); }
\*         Ok(()) }
SetupClosure(ws, focusOk) ==
    IF MainLabel \in ws
    THEN Outcome("Ok", << FocusReq(MainLabel, focusOk) >>, ws)
    ELSE Outcome("Ok", << >>, ws)

\* ---- .expect ----

RunOk == [ok |-> TRUE, err |-> "none"]
RunErr(e) == [ok |-> FALSE, err |-> e]
NoResult == [ok |-> TRUE, err |-> "pending"]

\* .unwrap() in place of .expect(msg): the panic carries no fixed message.
ExpectAsUnwrap(res, msg) ==
    IF res.ok THEN [panicked |-> FALSE, payload |-> << >>]
    ELSE [panicked |-> TRUE, payload |-> << "called Result::unwrap() on an Err value", res.err >>]

\* .ok() in place of .expect(msg): the error is dropped and run() returns.
ExpectAsOk(res, msg) == [panicked |-> FALSE, payload |-> << >>]

\* Result::expect: Ok(v) gives v; Err(e) panics with "{msg}: {e:?}".
Expect(res, msg) ==
    IF res.ok THEN [panicked |-> FALSE, payload |-> << >>]
    ELSE [panicked |-> TRUE, payload |-> << msg, res.err >>]

\* The call after .run(..) is evaluated while the run loop is still active.
ExpectReadyNonBlocking(p) == p \in {"loop", "run_returned"}

\* .expect(..) is applied to the value .run(..) returns: it is evaluated
\* only once .run(..) has returned.
ExpectReady(p) == p = "run_returned"

\* ---- state ----

VARIABLES
    ip,                 \* position of the next call of BuilderChain
    pc,                 \* "chain", "built", "loop", "run_returned", "exited", "aborted"
    plugins,            \* plugins registered on the builder, in order
    setup_hook,         \* whether .setup(..) stored the closure
    windows,            \* labels of the windows that exist
    logger_installed,   \* whether the logging plugin was initialised
    setup_count,        \* invocations of the setup closure
    setup_result,       \* "none", "Ok" or "Err": what the closure returned
    plugins_at_setup,   \* plugins registered when the closure was invoked
    windows_at_setup,   \* windows that existed when the closure was invoked
    windows_after_setup,\* windows that existed when the closure returned
    focus_requests,     \* focus requests issued, in order
    loop_entered,       \* whether the run loop ever started
    loop_active,        \* whether the run loop is running
    events_served,      \* external events the run loop has serviced
    stop_cause,         \* "none", "host" or "os": who stopped the run loop
    run_result,         \* value .run(context) returned
    returned,           \* whether run() has returned to its caller
    emitted,            \* log records application code emitted
    sink,               \* log records that reached the sink
    output,             \* diagnostics written by the process
    exit_status         \* << >> while the process lives, << status >> after

vars == << ip, pc, plugins, setup_hook, windows, logger_installed, setup_count,
           setup_result, plugins_at_setup, windows_at_setup,
           windows_after_setup, focus_requests, loop_entered, loop_active,
           events_served, stop_cause, run_result, returned, emitted, sink,
           output, exit_status >>

setupVars == << setup_count, setup_result, plugins_at_setup, windows_at_setup,
                windows_after_setup, focus_requests >>

logVars == << emitted, sink >>

loopVars == << loop_entered, loop_active, events_served, stop_cause >>

endVars == << run_result, returned, output, exit_status >>

\* State when run() is entered: tauri::Builder::default().
Init ==
    /\ ip = 1
    /\ pc = "chain"
    /\ plugins = << >>
    /\ setup_hook = FALSE
    /\ windows = {}
    /\ logger_installed = FALSE
    /\ setup_count = 0
    /\ setup_result = "none"
    /\ plugins_at_setup = << >>
    /\ windows_at_setup = {}
    /\ windows_after_setup = {}
    /\ focus_requests = << >>
    /\ loop_entered = FALSE
    /\ loop_active = FALSE
    /\ events_served = 0
    /\ stop_cause = "none"
    /\ run_result = NoResult
    /\ returned = FALSE
    /\ emitted = << >>
    /\ sink = << >>
    /\ output = << >>
    /\ exit_status = << >>

NextCall == BuilderChain[ip]

AtCall(op) == pc = "chain" /\ ip <= Len(BuilderChain) /\ NextCall.op = op

\* .plugin(init()): the plugin is appended to the builder's plugin store.
Plugin ==
    /\ AtCall("plugin")
    /\ plugins' = Append(plugins, NextCall.arg)
    /\ ip' = ip + 1
    /\ UNCHANGED << pc, setup_hook, windows, logger_installed >>
    /\ UNCHANGED << setupVars, logVars, loopVars, endVars >>

\* .setup(closure): the closure is stored, not invoked.
SetupCall ==
    /\ AtCall("setup")
    /\ setup_hook' = TRUE
    /\ ip' = ip + 1
    /\ UNCHANGED << pc, plugins, windows, logger_installed >>
    /\ UNCHANGED << setupVars, logVars, loopVars, endVars >>

\* .run(generate_context!()) fails to launch: it returns Err(e) before the
\* setup hook is invoked and before the run loop starts.
RunBuildFails ==
    /\ AtCall("run")
    /\ \E e \in LaunchErrors : run_result' = RunErr(e)
    /\ ip' = ip + 1
    /\ pc' = "run_returned"
    /\ UNCHANGED << plugins, setup_hook, windows, logger_installed >>
    /\ UNCHANGED << setupVars, logVars, loopVars, returned, output, exit_status >>

\* .run(generate_context!()) launches: the registered plugins are
\* initialised and the windows the context defines exist.
RunBuilds ==
    /\ AtCall("run")
    /\ \E ws \in SUBSET WindowLabels : windows' = ws
    /\ logger_installed' = (\E i \in 1..Len(plugins) : plugins[i] = "log")
    /\ ip' = ip + 1
    /\ pc' = "built"
    /\ UNCHANGED << plugins, setup_hook >>
    /\ UNCHANGED << setupVars, logVars, loopVars, endVars >>

\* Inside .run(..): the built application invokes the setup hook it holds
\* (taking it, so it cannot run again); Ok starts the run loop, Err is fatal.
Ready ==
    /\ pc = "built"
    /\ IF setup_hook
       THEN \E focusOk \in BOOLEAN :
              LET o == SetupClosure(windows, focusOk) IN
                /\ setup_count' = setup_count + 1
                /\ setup_result' = o.result
                /\ plugins_at_setup' = plugins
                /\ windows_at_setup' = windows
                /\ windows_after_setup' = o.windows
                /\ windows' = o.windows
                /\ focus_requests' = focus_requests \o o.requests
                /\ IF o.result = "Ok"
                   THEN /\ pc' = "loop"
                        /\ loop_entered' = TRUE
                        /\ loop_active' = TRUE
                        /\ UNCHANGED << output, exit_status >>
                   ELSE /\ pc' = "aborted"
                        /\ output' = Append(output, << "Failed to setup app", "setup" >>)
                        /\ exit_status' = << PanicExitStatus >>
                        /\ UNCHANGED << loop_entered, loop_active >>
       ELSE /\ pc' = "loop"
            /\ loop_entered' = TRUE
            /\ loop_active' = TRUE
            /\ UNCHANGED << setupVars, windows, output, exit_status >>
    /\ setup_hook' = FALSE
    /\ UNCHANGED << ip, plugins, logger_installed, logVars, events_served,
                    stop_cause, run_result, returned >>

\* Application code emits a log record while the application exists; the
\* logging plugin passes it to the sink when the filter enables its level.
Log ==
    /\ pc \in {"built", "loop"}
    /\ Len(emitted) < MaxLog
    /\ \E l \in LevelSet :
         LET rec == [level |-> l, phase |-> IF setup_count = 0 THEN "pre" ELSE "post"] IN
           /\ emitted' = Append(emitted, rec)
           /\ sink' = IF logger_installed /\ LogEnabled(l) THEN Append(sink, rec) ELSE sink
    /\ UNCHANGED << ip, pc, plugins, setup_hook, windows, logger_installed >>
    /\ UNCHANGED << setupVars, loopVars, endVars >>

\* The run loop services one external event: an input, or the host
\* closing or opening a window.
ServeEvent ==
    /\ pc = "loop"
    /\ events_served < MaxEvents
    /\ events_served' = events_served + 1
    /\ \/ windows' = windows
       \/ \E w \in windows : windows' = windows \ {w}
       \/ \E w \in WindowLabels \ windows : windows' = windows \cup {w}
    /\ UNCHANGED << ip, pc, plugins, setup_hook, logger_installed >>
    /\ UNCHANGED << setupVars, logVars, loop_entered, loop_active, stop_cause, endVars >>

\* The host or the OS tells the run loop to stop: the process exits from
\* inside the loop, or .run(..) returns Ok(()).
StopLoop ==
    /\ pc = "loop"
    /\ \E c \in {"host", "os"} : stop_cause' = c
    /\ loop_active' = FALSE
    /\ \/ /\ pc' = "exited"
          /\ exit_status' = << NormalExitStatus >>
          /\ UNCHANGED run_result
       \/ /\ pc' = "run_returned"
          /\ run_result' = RunOk
          /\ UNCHANGED exit_status
    /\ UNCHANGED << ip, plugins, setup_hook, windows, logger_installed >>
    /\ UNCHANGED << setupVars, logVars, loop_entered, events_served, returned, output >>

\* .expect(msg) on the value of .run(..): Err panics with the message and
\* the process ends with the panic status; Ok lets run() return.
ExpectStep ==
    /\ ExpectReady(pc)
    /\ LET x == Expect(run_result, ExpectMsg) IN
         IF x.panicked
         THEN /\ pc' = "aborted"
              /\ output' = Append(output, x.payload)
              /\ exit_status' = << PanicExitStatus >>
              /\ UNCHANGED returned
         ELSE /\ pc' = "exited"
              /\ returned' = TRUE
              /\ exit_status' = << NormalExitStatus >>
              /\ UNCHANGED output
    /\ UNCHANGED << ip, plugins, setup_hook, windows, logger_installed, run_result >>
    /\ UNCHANGED << setupVars, logVars, loopVars >>

Next ==
    \/ Plugin
    \/ SetupCall
    \/ RunBuildFails
    \/ RunBuilds
    \/ Ready
    \/ Log
    \/ ServeEvent
    \/ StopLoop
    \/ ExpectStep

Spec == Init /\ [][Next]_vars

TypeOK ==
    /\ ip \in 1..(Len(BuilderChain) + 1)
    /\ pc \in {"chain", "built", "loop", "run_returned", "exited", "aborted"}
    /\ windows \subseteq WindowLabels
    /\ setup_count \in 0..1
    /\ setup_result \in {"none", "Ok", "Err"}
    /\ events_served \in 0..MaxEvents
    /\ Len(emitted) <= MaxLog
    /\ Len(exit_status) <= 1

\* ---- properties ----

Last(q) == q[Len(q)]

Terminal == pc \in {"aborted", "exited"}

\* The six capabilities in the order the specification lists them.
SixPlugins == << "shell", "process", "dialog", "notification", "http", "log" >>

IsPrefix(p, q) == Len(p) <= Len(q) /\ \A i \in 1..Len(p) : p[i] = q[i]

\* A step of the bootstrap sequence: a builder call or the setup hook.
BootstrapStep == Plugin \/ SetupCall \/ RunBuildFails \/ RunBuilds \/ Ready

\* C1: all six plugins are registered before the setup callback is invoked,
\* and the setup callback has completed before the run loop services any
\* external event.
C1_PluginsThenSetupThenEvents ==
    /\ pc = "built" => Len(plugins) = 6
    /\ setup_count > 0 =>
          /\ Len(plugins_at_setup) = 6
          /\ {plugins_at_setup[i] : i \in 1..6} =
                {"shell", "process", "dialog", "notification", "http", "log"}
    /\ events_served > 0 => setup_count = 1 /\ setup_result = "Ok"
    /\ loop_entered => setup_count = 1 /\ setup_result = "Ok"

\* C1 witness: an external event was serviced after the setup callback ran
\* with six plugins registered.
C1_Witness ==
    events_served > 0 /\ setup_count = 1 /\ Len(plugins_at_setup) = 6

\* C2 as stated: the setup callback runs at most once, and a finished run in
\* which it ran zero times is one where construction failed before the
\* callback was registered.
C2_Original ==
    /\ setup_count <= 1
    /\ (Terminal /\ setup_count = 0) => ~setup_hook

\* C2 amended: the setup callback runs at most once; it has run exactly once
\* whenever the run loop was entered; a finished run in which it ran zero
\* times is one where .run(context) failed to launch, which happens after
\* the callback was registered and before it is invoked.
C2_SetupOnceUnlessLaunchFails ==
    /\ setup_count <= 1
    /\ loop_entered => setup_count = 1
    /\ (Terminal /\ setup_count = 0) =>
          /\ ~run_result.ok
          /\ run_result.err \in {"context", "resources", "windowing"}
          /\ setup_hook
          /\ ~loop_entered
    /\ (Terminal /\ run_result.ok) => setup_count = 1

\* C2 witness: a finished run in which the registered callback never ran,
\* the launch having failed.
C2_Witness ==
    pc = "aborted" /\ setup_count = 0 /\ setup_hook /\ ~run_result.ok

\* C3: a launch failure ends the process at once with a non-zero status and
\* the fixed message as its last output; the run loop is never entered, the
\* setup callback never runs and no further bootstrap step is taken.
C3_LaunchFailureIsFatal ==
    /\ ~run_result.ok =>
          /\ pc \in {"run_returned", "aborted"}
          /\ ~ENABLED BootstrapStep
          /\ ~ENABLED (Log \/ ServeEvent \/ StopLoop)
          /\ ~loop_entered /\ ~loop_active
          /\ setup_count = 0 /\ events_served = 0
          /\ ~returned
    /\ (~run_result.ok /\ pc = "run_returned") => ENABLED ExpectStep
    /\ pc = "aborted" =>
          /\ ~run_result.ok
          /\ Len(exit_status) = 1 /\ exit_status[1] # 0
          /\ Len(output) = 1
          /\ Last(output)[1] = "Erreur lors du lancement de l'application Tax Free RDC"
          /\ Last(output)[2] = run_result.err
          /\ ~ENABLED Next

\* C3 witness: the process aborted after a launch failure.
C3_Witness ==
    pc = "aborted" /\ ~run_result.ok /\ output # << >>

\* C4: with no window "main" at setup time the callback issues no focus
\* request and returns success, and startup proceeds to the run loop.
C4_MainAbsentIsNotAnError ==
    (setup_count = 1 /\ "main" \notin windows_at_setup) =>
        /\ focus_requests = << >>
        /\ setup_result = "Ok"
        /\ loop_entered
        /\ pc \in {"loop", "run_returned", "exited"}
        /\ pc = "exited" => exit_status = << 0 >>

\* C4 witness: the run loop is running after a setup with no "main" window
\* (another window existing).
C4_Witness ==
    /\ setup_count = 1 /\ windows_at_setup = {"splash"}
    /\ pc = "loop" /\ loop_active

\* C5: with a window "main" at setup time one focus request is issued on
\* it; whether it succeeds or fails the callback returns success and the
\* process goes on to the run loop; the callback never returns an error.
C5_FocusFailureIsSwallowed ==
    /\ setup_result \in {"none", "Ok"}
    /\ (setup_count = 1 /\ "main" \in windows_at_setup) =>
          /\ Len(focus_requests) = 1
          /\ focus_requests[1].label = "main"
          /\ setup_result = "Ok"
          /\ loop_entered
          /\ pc \in {"loop", "run_returned", "exited"}

\* C5 witness: the focus request on "main" failed and the run loop runs.
C5_Witness ==
    /\ setup_count = 1 /\ "main" \in windows_at_setup
    /\ Len(focus_requests) = 1 /\ ~focus_requests[1].ok
    /\ pc = "loop" /\ loop_active

\* C6: run() has not returned while the run loop is active, and when the
\* run loop started run() returns only after the loop was told to stop.
C6_RunBlocksWhileLoopActive ==
    /\ loop_active => ~returned
    /\ (returned /\ loop_entered) => stop_cause \in {"host", "os"} /\ ~loop_active
    /\ returned => pc = "exited"

\* C6 witness: run() returned after the run loop was stopped.
C6_Witness ==
    returned /\ loop_entered /\ ~loop_active /\ events_served > 0

\* C7: the registered plugins are at every point a prefix of the order
\* shell, process, dialog, notification, http, log, and once the builder
\* is run all six are registered, each once.
C7_PluginOrder ==
    /\ IsPrefix(plugins, SixPlugins)
    /\ pc # "chain" => plugins = SixPlugins
    /\ setup_hook => plugins = SixPlugins

\* C7 witness: all six plugins registered, the builder not yet run.
C7_Witness ==
    pc = "chain" /\ Len(plugins) = 6 /\ setup_hook

\* C8: the sink holds exactly the emitted records of severity error, warn
\* or info, in order, whether emitted before or after the setup callback.
C8_InfoAndAboveReachSink ==
    sink = SelectSeq(emitted, LAMBDA r : r.level \in {"error", "warn", "info"})

\* C8 witness: a record emitted before setup and one emitted after it
\* reached the sink, and a record below info was suppressed.
C8_Witness ==
    /\ Len(emitted) = 3 /\ Len(sink) = 2
    /\ sink[1].phase = "pre" /\ sink[1].level = "info"
    /\ sink[2].phase = "post" /\ sink[2].level = "warn"
    /\ \E i \in 1..3 : emitted[i].level = "debug"

\* C9: a run that can take no further step has aborted or exited; an abort
\* comes only from a launch failure, never from the setup callback; an exit
\* comes only after the run loop was told to stop by the host or the OS.
C9_TwoTerminalOutcomes ==
    /\ ~ENABLED Next => Terminal
    /\ Terminal => ~ENABLED Next
    /\ pc = "aborted" =>
          /\ ~run_result.ok /\ run_result.err \in {"context", "resources", "windowing"}
          /\ setup_result = "none"
          /\ ~loop_entered
    /\ pc = "exited" =>
          /\ loop_entered /\ ~loop_active
          /\ stop_cause \in {"host", "os"}
          /\ run_result.ok
          /\ setup_result = "Ok"

\* C9 witness: a run that exited after the OS stopped the loop, the focus
\* request of its setup callback having failed.
C9_Witness ==
    /\ pc = "exited" /\ stop_cause = "os"
    /\ Len(focus_requests) = 1 /\ ~focus_requests[1].ok

\* C10: the setup callback issues at most one focus request, only ever on
\* "main", and the windows that exist when it returns are those that
\* existed when it was invoked.
C10_OnlyFocusesMain ==
    /\ Len(focus_requests) <= setup_count
    /\ Len(focus_requests) <= 1
    /\ \A i \in 1..Len(focus_requests) : focus_requests[i].label = "main"
    /\ setup_count = 1 => windows_after_setup = windows_at_setup
    /\ (setup_count = 1 /\ events_served = 0) => windows = windows_at_setup

\* C10 witness: setup ran with windows "main" and "splash" both present and
\* focused "main" alone; a window changed later in the run loop.
C10_Witness ==
    /\ setup_count = 1 /\ windows_at_setup = {"main", "splash"}
    /\ Len(focus_requests) = 1
    /\ windows # windows_at_setup

=============================================================================
